---------------------------- MODULE Spec2Model ----------------------------
(***************************************************************************)
(* The KAD lookup of tornet (src/src/kad.cpp): kad_search::start spawns    *)
(* m_p coroutines on the node's thread, each running search_thread over    *)
(* the shared m_search_queue / m_current_results / m_cur_status;           *)
(* kad_search::wait joins them.                                            *)
(*                                                                         *)
(* The coroutines are multiplexed on one fc::thread, so a task runs        *)
(* without interruption between two suspension points.  The suspension     *)
(* points of search_thread are the three calls that may wait for the       *)
(* network: connect_to (line 73), filter (line 77) and remote_nodes_near   *)
(* (line 113).  Each action below is one such uninterrupted segment.       *)
(*                                                                         *)
(* std::map is modelled as a sequence of [key, val] records kept in        *)
(* ascending key order, so begin() is the first and --end() the last       *)
(* element.  Identifiers (fc::sha1) are naturals 0..MaxId, compared as     *)
(* unsigned numbers, operator^ is bitwise exclusive or.                    *)
(***************************************************************************)
EXTENDS Naturals, Sequences, FiniteSets, TLC

\* ------------------------------------------------------------------ bounds
MaxId == 3
MaxN == 2
MaxP == 2
MaxResp == 1
MaxD == 2

ID == 0..MaxId
EP == ID

VARIABLES
    m_n,               \* desired number of results (constructor argument n)
    m_p,               \* number of worker coroutines (constructor argument p)
    m_target,          \* the identifier searched for
    m_cur_status,      \* "idle", "searching", "canceled", "done"
    m_current_results, \* std::map distance -> node id
    m_search_queue,    \* std::map id -> endpoint
    m_pending,         \* one entry per spawned search_thread: its position
    callerPc,          \* the caller of start / wait
    waitI,             \* loop index i of kad_search::wait
    now,               \* fc::time_point::now(), in ticks since wait was called
    d,                 \* the argument of wait, in ticks (0: not called with one)
    timeout_time,      \* the local timeout_time of wait (line 48)
    world,             \* the collaborator: free, or a fixed table of answers
    admitted           \* history: the ids stored by line 79 since start

vars == << m_n, m_p, m_target, m_cur_status, m_current_results, m_search_queue,
           m_pending, callerPc, waitI, now, d, timeout_time, world, admitted >>

\* ------------------------------------------------------------ fc::sha1
RECURSIVE Xor(_, _)
Xor(a, b) ==
    IF a = 0 THEN b
    ELSE IF b = 0 THEN a
    ELSE 2 * Xor(a \div 2, b \div 2) + (((a % 2) + (b % 2)) % 2)

\* ------------------------------------------------------------ std::map
Entry(k, v) == [key |-> k, val |-> v]

MapKeys(m) == { m[i].key : i \in 1..Len(m) }

MapVals(m) == { m[i].val : i \in 1..Len(m) }

\* m.find(k) != m.end()
MapHas(m, k) == k \in MapKeys(m)

\* MapPut as the insert of a std::multimap: an equal key is not replaced.
MapPut_Multi(m, k, v) ==
    SelectSeq(m, LAMBDA e : e.key <= k) \o << Entry(k, v) >>
        \o SelectSeq(m, LAMBDA e : e.key > k)

\* m[k] = v
MapPut(m, k, v) ==
    SelectSeq(m, LAMBDA e : e.key < k) \o << Entry(k, v) >>
        \o SelectSeq(m, LAMBDA e : e.key > k)

\* m.erase( --m.end() )
EraseLast(m) == SubSeq(m, 1, Len(m) - 1)

\* m.erase( m.begin() )
EraseBegin(m) == Tail(m)

\* ------------------------------------------------------------ hosts
Host(i, e) == [id |-> i, ep |-> e]

Hosts == { Host(i, i) : i \in ID }

RECURSIVE SeqsUpTo(_, _)
SeqsUpTo(S, n) ==
    IF n = 0 THEN { << >> }
    ELSE LET shorter == SeqsUpTo(S, n - 1)
         IN  shorter \cup { Append(s, x) : s \in { t \in shorter : Len(t) = n - 1 }, x \in S }

Min(a, b) == IF a < b THEN a ELSE b

Ascending(s) == \A i \in 1..Len(s) : \A j \in 1..Len(s) : i < j => s[i].id < s[j].id

\* The lists of at most n distinct hosts (listed by ascending id: std::map
\* insertion does not depend on the order).
HostLists(n) == { s \in SeqsUpTo(Hosts, n) : Ascending(s) }

\* ------------------------------------------------ the collaborator (node)
\* What a call returns: a value, or an exception (ok = FALSE).
Threw == [ok |-> FALSE, id |-> 0, rr |-> << >>]

Returned(i) == [ok |-> TRUE, id |-> i, rr |-> << >>]

Answered(s) == [ok |-> TRUE, id |-> 0, rr |-> s]

\* A free collaborator answers every call with any value of the call's type;
\* a fixed one (world.det) answers from its tables.
FreeWorld ==
    [det |-> FALSE, seeds |-> << >>, resolve |-> [e \in EP |-> Threw],
     reject |-> {}, mute |-> {}, near |-> [i \in ID |-> << >>]]

\* m_node->find_nodes_near( m_target, m_n ): at most m_n hosts
FindNodesNear ==
    IF world.det THEN { world.seeds } ELSE HostLists(m_n)

\* m_node->connect_to( ep ): the id found at ep, or an exception
ConnectTo(ep) ==
    IF world.det THEN { world.resolve[ep] }
    ELSE { Returned(i) : i \in ID } \cup { Threw }

\* filter( rtn ): returns, or throws to reject the node
FilterAccepts(rtn) ==
    IF world.det THEN { rtn \notin world.reject } ELSE BOOLEAN

\* m_node->remote_nodes_near( rtn, m_target, m_n, limit ): at most m_n hosts,
\* or an exception
RemoteNodesNear(rtn) ==
    IF world.det
    THEN { IF rtn \in world.mute THEN Threw ELSE Answered(world.near[rtn]) }
    ELSE { Answered(s) : s \in HostLists(Min(m_n, MaxResp)) } \cup { Threw }

\* ------------------------------------------------ search_thread, by parts
NoLimit == [set |-> FALSE, v |-> 0]

Task(pc, ep, rtn, limit) == [pc |-> pc, ep |-> ep, rtn |-> rtn, limit |-> limit]

Spawned == Task("spawned", 0, 0, NoLimit)

Exited == Task("exited", 0, 0, NoLimit)

\* lines 29-32: the hosts found locally go into the queue, keyed by id
RECURSIVE SeedQueue(_, _)
SeedQueue(q, nn) ==
    IF nn = << >> THEN q
    ELSE SeedQueue(MapPut(q, Head(nn).id, Head(nn).ep), Tail(nn))

\* NextIter without the erase of line 70.
NextIter_KeepsEntry(q, st) ==
    IF Len(q) > 0 /\ st = "searching"
    THEN [task |-> Task("connect", q[1].val, 0, NoLimit), queue |-> q]
    ELSE [task |-> Exited, queue |-> q]

\* lines 67-70: the loop test, and the removal of the first queue entry
NextIter(q, st) ==
    IF Len(q) > 0 /\ st = "searching"
    THEN [task |-> Task("connect", q[1].val, 0, NoLimit), queue |-> EraseBegin(q)]
    ELSE [task |-> Exited, queue |-> q]

\* Admit without lines 80-82.
Admit_Uncapped(res, rtn) == MapPut(res, Xor(m_target, rtn), rtn)

\* Admit with the wrong end erased: begin() instead of --end().
Admit_DropsClosest(res, rtn) ==
    LET r1 == MapPut(res, Xor(m_target, rtn), rtn)
    IN  IF Len(r1) > m_n THEN EraseBegin(r1) ELSE r1

\* lines 79-82: store the node under its distance, drop the farthest entry
Admit(res, rtn) ==
    LET r1 == MapPut(res, Xor(m_target, rtn), rtn)
    IN  IF Len(r1) > m_n THEN EraseLast(r1) ELSE r1

\* StatusAfter with the test of line 84 always true.
StatusAfter_AlwaysDone(rtn, st) == "done"

\* StatusAfter without the test of line 84.
StatusAfter_NeverDone(rtn, st) == st

\* lines 84-86: the status after rtn was stored
StatusAfter(rtn, st) == IF rtn = m_target THEN "done" ELSE st

\* Limit with the test of line 101 as size() > m_n.
Limit_WhenOverfull(res) ==
    IF Len(res) > m_n /\ m_n # 0
    THEN [set |-> TRUE, v |-> res[Len(res)].key]
    ELSE NoLimit

\* lines 100-104: the distance of the farthest result, once there are m_n
Limit(res) ==
    IF Len(res) >= m_n /\ m_n # 0
    THEN [set |-> TRUE, v |-> res[Len(res)].key]
    ELSE NoLimit

\* lines 117-128: whether one returned host goes into the queue
Queues(res, h) ==
    /\ ~ MapHas(res, h.id)
    /\ \/ Len(res) < m_n
       \/ res[Len(res)].key > h.id

\* lines 114-131: the returned hosts, in order
RECURSIVE Merge(_, _, _)
Merge(q, res, rr) ==
    IF rr = << >> THEN q
    ELSE LET h == Head(rr)
         IN  Merge(IF Queues(res, h) THEN MapPut(q, h.id, h.ep) ELSE q, res, Tail(rr))

\* ------------------------------------------------------------ states
TypeOK ==
    /\ m_n \in 0..MaxN
    /\ m_p \in Nat \ {0}
    /\ m_target \in ID
    /\ m_cur_status \in {"idle", "searching", "canceled", "done"}
    /\ callerPc \in {"idle", "started", "waiting", "waiting_until", "returned", "timedout"}
    /\ now \in 0..MaxD
    /\ d \in 0..MaxD
    /\ timeout_time \in 0..MaxD
    /\ admitted \subseteq ID

Init ==
    /\ m_n \in 0..MaxN
    /\ m_p \in 1..MaxP
    /\ m_target \in ID
    /\ m_cur_status = "idle"
    /\ m_current_results = << >>
    /\ m_search_queue = << >>
    /\ m_pending = << >>
    /\ callerPc = "idle"
    /\ waitI = 0
    /\ now = 0
    /\ d = 0
    /\ timeout_time = 0
    /\ world = FreeWorld
    /\ admitted = {}

\* SpawnTasks with the loop test i <= m_p.
SpawnTasks_OneMore == [i \in 1..(m_p + 1) |-> Spawned]

\* lines 34-38: one future per search_thread, m_p of them
SpawnTasks == [i \in 1..m_p |-> Spawned]

\* kad_search::start
Start ==
    /\ callerPc = "idle"
    /\ \E nn \in FindNodesNear :
          m_search_queue' = SeedQueue(m_search_queue, nn)
    /\ m_current_results' = << >>
    /\ m_cur_status' = "searching"
    /\ m_pending' = SpawnTasks
    /\ callerPc' = "started"
    /\ admitted' = {}
    /\ UNCHANGED << now, d, timeout_time, m_n, m_p, m_target, waitI, world >>

\* Task w goes on from the loop test (line 67) to its next suspension.
Continue(w, q, st) ==
    LET it == NextIter(q, st)
    IN  /\ m_pending' = [m_pending EXCEPT ![w] = it.task]
        /\ m_search_queue' = it.queue

\* The scheduler runs task w for the first time.
RunTask(w) ==
    /\ w \in DOMAIN m_pending
    /\ m_pending[w].pc = "spawned"
    /\ Continue(w, m_search_queue, m_cur_status)
    /\ UNCHANGED << now, d, timeout_time, m_n, m_p, m_target, m_cur_status, m_current_results,
                    callerPc, waitI, world, admitted >>

\* ConnectReturn without the try / catch of lines 72 and 133: an exception of
\* connect_to leaves search_thread.
ConnectReturn_NoCatch(w) ==
    /\ w \in DOMAIN m_pending
    /\ m_pending[w].pc = "connect"
    /\ \E r \in ConnectTo(m_pending[w].ep) :
          m_pending' = [m_pending EXCEPT ![w] =
                           IF r.ok THEN Task("filter", 0, r.id, NoLimit) ELSE Exited]
    /\ UNCHANGED << now, d, timeout_time, m_n, m_p, m_target, m_cur_status, m_current_results,
                    m_search_queue, callerPc, waitI, world, admitted >>

\* connect_to (line 73) returns to task w, which then calls filter (77),
\* or throws into the catch of line 133.
ConnectReturn(w) ==
    /\ w \in DOMAIN m_pending
    /\ m_pending[w].pc = "connect"
    /\ \E r \in ConnectTo(m_pending[w].ep) :
          IF r.ok
          THEN /\ m_pending' = [m_pending EXCEPT ![w] = Task("filter", 0, r.id, NoLimit)]
               /\ UNCHANGED m_search_queue
          ELSE Continue(w, m_search_queue, m_cur_status)
    /\ UNCHANGED << now, d, timeout_time, m_n, m_p, m_target, m_cur_status, m_current_results,
                    callerPc, waitI, world, admitted >>

\* filter (line 77) returns to task w: lines 78-113, up to the remote call;
\* or it throws into the catch of line 133.
FilterReturn(w) ==
    /\ w \in DOMAIN m_pending
    /\ m_pending[w].pc = "filter"
    /\ \E ok \in FilterAccepts(m_pending[w].rtn) :
          IF ok
          THEN LET rtn == m_pending[w].rtn
                   res == Admit(m_current_results, rtn)
                   st  == StatusAfter(rtn, m_cur_status)
               IN  /\ m_current_results' = res
                   /\ m_cur_status' = st
                   /\ admitted' = admitted \cup {rtn}
                   /\ m_pending' = [m_pending EXCEPT ![w] =
                         IF st = "done" THEN Exited
                         ELSE Task("remote", 0, rtn, Limit(res))]
                   /\ UNCHANGED m_search_queue
          ELSE /\ Continue(w, m_search_queue, m_cur_status)
               /\ UNCHANGED << m_current_results, m_cur_status, admitted >>
    /\ UNCHANGED << now, d, timeout_time, m_n, m_p, m_target, callerPc, waitI, world >>

\* line 113: the arguments of the call task w is suspended in
RemoteQuery(w) ==
    [via |-> m_pending[w].rtn, target |-> m_target, count |-> m_n,
     limit |-> m_pending[w].limit]

\* RemoteReturn without the try / catch of lines 72 and 133: an exception of
\* remote_nodes_near leaves search_thread.
RemoteReturn_NoCatch(w) ==
    /\ w \in DOMAIN m_pending
    /\ m_pending[w].pc = "remote"
    /\ \E r \in RemoteNodesNear(m_pending[w].rtn) :
          IF r.ok
          THEN Continue(w, Merge(m_search_queue, m_current_results, r.rr), m_cur_status)
          ELSE /\ m_pending' = [m_pending EXCEPT ![w] = Exited]
               /\ UNCHANGED m_search_queue
    /\ UNCHANGED << now, d, timeout_time, m_n, m_p, m_target, m_cur_status, m_current_results,
                    callerPc, waitI, world, admitted >>

\* remote_nodes_near (line 113) returns to task w: the merge of lines
\* 114-131 and the next loop test; or it throws into the catch of line 133.
RemoteReturn(w) ==
    /\ w \in DOMAIN m_pending
    /\ m_pending[w].pc = "remote"
    /\ \E r \in RemoteNodesNear(m_pending[w].rtn) :
          IF r.ok
          THEN Continue(w, Merge(m_search_queue, m_current_results, r.rr), m_cur_status)
          ELSE Continue(w, m_search_queue, m_cur_status)
    /\ UNCHANGED << now, d, timeout_time, m_n, m_p, m_target, m_cur_status, m_current_results,
                    callerPc, waitI, world, admitted >>

\* The search is cancelled from outside: the status leaves "searching".
Cancel ==
    /\ m_cur_status = "searching"
    /\ m_cur_status' = "canceled"
    /\ UNCHANGED << now, d, timeout_time, m_n, m_p, m_target, m_current_results, m_search_queue,
                    m_pending, callerPc, waitI, world, admitted >>

\* FirstPending with the loop test i < m_pending.size() - 1.
RECURSIVE FirstPending_SkipsLast(_)
FirstPending_SkipsLast(i) ==
    IF i >= Len(m_pending) THEN Len(m_pending) + 1
    ELSE IF m_pending[i].pc = "exited" THEN FirstPending_SkipsLast(i + 1)
    ELSE i

\* kad_search::wait, d == microseconds::max(): the first i whose future is
\* not ready, from i on; m_pending.size() + 1 when there is none
RECURSIVE FirstPending(_)
FirstPending(i) ==
    IF i > Len(m_pending) THEN i
    ELSE IF m_pending[i].pc = "exited" THEN FirstPending(i + 1)
    ELSE i

WaitLoop(i) ==
    LET j == FirstPending(i)
    IN  /\ waitI' = j
        /\ callerPc' = IF j > Len(m_pending) THEN "returned" ELSE "waiting"

\* The caller enters wait (lines 42-46) and blocks on the first running task.
WaitCall ==
    /\ callerPc = "started"
    /\ WaitLoop(1)
    /\ UNCHANGED << now, d, timeout_time, m_n, m_p, m_target, m_cur_status, m_current_results,
                    m_search_queue, m_pending, world, admitted >>

\* m_pending[i].wait() (line 45) returns: the loop goes on.
WaitResume ==
    /\ callerPc = "waiting"
    /\ m_pending[waitI].pc = "exited"
    /\ WaitLoop(waitI + 1)
    /\ UNCHANGED << now, d, timeout_time, m_n, m_p, m_target, m_cur_status, m_current_results,
                    m_search_queue, m_pending, world, admitted >>

\* TimeoutTime with the deadline counted twice.
TimeoutTime_Doubled(dd) == now + dd + dd

\* line 48: the one deadline of the call, now() + d
TimeoutTime(dd) == now + dd

\* lines 49-52 from index i on, with the deadline tt: a future that is ready
\* is passed; at one that is not, wait_until( tt ) suspends the caller while
\* tt lies ahead, and once tt is reached it either throws out of wait or
\* returns and the loop goes on.  The value is the set of places the caller
\* can be at when this segment ends.
RECURSIVE JoinUntil(_, _)
JoinUntil(i, tt) ==
    IF i > Len(m_pending) THEN { [pc |-> "returned", i |-> i] }
    ELSE IF m_pending[i].pc = "exited" THEN JoinUntil(i + 1, tt)
    ELSE IF now < tt THEN { [pc |-> "waiting_until", i |-> i] }
    ELSE { [pc |-> "timedout", i |-> i] } \cup JoinUntil(i + 1, tt)

\* The caller enters wait( dd ) with a deadline (lines 47-52).
WaitUntilCall(dd) ==
    /\ callerPc = "started"
    /\ d' = dd
    /\ timeout_time' = TimeoutTime(dd)
    /\ \E o \in JoinUntil(1, TimeoutTime(dd)) :
          /\ callerPc' = o.pc
          /\ waitI' = o.i
    /\ UNCHANGED << now, m_n, m_p, m_target, m_cur_status, m_current_results,
                    m_search_queue, m_pending, world, admitted >>

\* m_pending[i].wait_until( timeout_time ) (line 51) ends, the future being
\* ready or the deadline reached: the loop goes on.
WaitUntilResume ==
    /\ callerPc = "waiting_until"
    /\ m_pending[waitI].pc = "exited" \/ now >= timeout_time
    /\ \E o \in JoinUntil(waitI, timeout_time) :
          /\ callerPc' = o.pc
          /\ waitI' = o.i
    /\ UNCHANGED << now, d, timeout_time, m_n, m_p, m_target, m_cur_status,
                    m_current_results, m_search_queue, m_pending, world, admitted >>

\* A tick of the clock while the caller is suspended in wait_until; the timer
\* of a suspended wait_until goes off when its deadline is reached, so the
\* clock does not pass it with the caller still suspended.
Tick ==
    /\ callerPc = "waiting_until"
    /\ now < timeout_time
    /\ now' = now + 1
    /\ UNCHANGED << d, timeout_time, m_n, m_p, m_target, m_cur_status,
                    m_current_results, m_search_queue, m_pending, callerPc, waitI,
                    world, admitted >>

Workers == 1..(MaxP + 2)

\* ------------------------------------------------ fixed collaborators
\* A fixed collaborator: every endpoint e is the one of node e, which answers
\* there unless it is down; the filter rejects the nodes of reject; the
\* nodes answer a neighbours query from the table near, and the query to a
\* node of mute fails.
Faults ==
    { [dead |-> {}, reject |-> {}, mute |-> {}] }
        \cup { [dead |-> {x}, reject |-> {}, mute |-> {}] : x \in ID }
        \cup { [dead |-> {}, reject |-> {x}, mute |-> {}] : x \in ID }
        \cup { [dead |-> {}, reject |-> {}, mute |-> {x}] : x \in ID }

Silent == [i \in ID |-> << >>]

\* Either no node knows a neighbour and one node may be down, rejected or
\* mute, or all nodes are up, accepted and answering and one node, a, knows
\* other hosts.
Tables(n) ==
    { [dead |-> g.dead, reject |-> g.reject, mute |-> g.mute, near |-> Silent] :
        g \in Faults }
        \cup UNION { { [dead |-> {}, reject |-> {}, mute |-> {},
                        near |-> [Silent EXCEPT ![a] = r]] :
                          r \in { u \in HostLists(Min(n, MaxResp)) :
                                    \A k \in 1..Len(u) : u[k].id # a } } :
                     a \in ID }

FixedWorlds(n) ==
    { [det |-> TRUE,
       seeds |-> s,
       resolve |-> [e \in EP |-> IF e \in t.dead THEN Threw ELSE Returned(e)],
       reject |-> t.reject,
       mute |-> t.mute,
       near |-> t.near] :
         s \in HostLists(n),
         t \in Tables(n) }

\* search_thread run by a single task (m_p = 1) against the fixed collaborator:
\* the loop of lines 67-136, iteration by iteration, from queue q, results
\* res and status st; the value is the result set when the task leaves.
RECURSIVE SeqRun(_, _, _, _)
SeqRun(q, res, st, fuel) ==
    LET it == NextIter(q, st)
    IN  IF fuel = 0 \/ it.task.pc = "exited" THEN res
        ELSE LET c == world.resolve[it.task.ep]
             IN  IF ~ c.ok \/ c.id \in world.reject
                 THEN SeqRun(it.queue, res, st, fuel - 1)
                 ELSE LET r1 == Admit(res, c.id)
                          st1 == StatusAfter(c.id, st)
                      IN  IF st1 = "done" THEN r1
                          ELSE IF c.id \in world.mute
                          THEN SeqRun(it.queue, r1, st1, fuel - 1)
                          ELSE SeqRun(Merge(it.queue, r1, world.near[c.id]), r1, st1, fuel - 1)

\* No fixed collaborator above makes a task visit more nodes than this.
Fuel == MaxN + MaxResp + 1

SingleTaskResult == SeqRun(SeedQueue(<< >>, world.seeds), << >>, "searching", Fuel)

\* The same search, over every fixed collaborator, with one task or with four.
DetInit ==
    /\ m_n \in 0..MaxN
    /\ m_p \in {1, 4}
    /\ m_target \in ID
    /\ m_cur_status = "idle"
    /\ m_current_results = << >>
    /\ m_search_queue = << >>
    /\ m_pending = << >>
    /\ callerPc = "idle"
    /\ waitI = 0
    /\ now = 0
    /\ d = 0
    /\ timeout_time = 0
    /\ world \in FixedWorlds(m_n)
    /\ admitted = {}

TaskStep(w) ==
    \/ RunTask(w)
    \/ ConnectReturn(w)
    \/ FilterReturn(w)
    \/ RemoteReturn(w)

Next ==
    \/ Start
    \/ \E w \in Workers : RunTask(w)
    \/ \E w \in Workers : ConnectReturn(w)
    \/ \E w \in Workers : FilterReturn(w)
    \/ \E w \in Workers : RemoteReturn(w)
    \/ Cancel
    \/ WaitCall
    \/ WaitResume

Spec == Init /\ [][Next]_vars

DetSpec == DetInit /\ [][Next]_vars

\* The scheduler of the node's thread runs every task that is ready, every
\* collaborator call returns (with a value or an exception), and the caller
\* of wait is resumed when the future it waits for is ready.
FairSpec ==
    /\ Init
    /\ [][Next]_vars
    /\ \A w \in Workers : WF_vars(TaskStep(w))
    /\ WF_vars(WaitCall)
    /\ WF_vars(WaitResume)

\* The search with a caller that may give wait a deadline of 1..MaxD ticks.
TimedNext ==
    \/ Next
    \/ \E dd \in 1..MaxD : WaitUntilCall(dd)
    \/ WaitUntilResume
    \/ Tick

TimedSpec == Init /\ [][TimedNext]_vars

\* ------------------------------------------------------------ properties
Started == callerPc # "idle"

Running == { w \in DOMAIN m_pending : m_pending[w].pc # "exited" }

AllExited == Started /\ Running = {}

Dist(i) == Xor(m_target, i)

\* The n ids of S closest to the target (all of S when it has fewer).
NClosest(S, n) ==
    { x \in S : Cardinality({ y \in S : Dist(y) < Dist(x) }) < n }

Worst(res) == res[Len(res)].key

\* C1: in every reachable state the result set has at most m_n entries, each
\* keyed by target XOR id, in ascending key order, and its ids are exactly
\* the min(m_n, k) closest of the k ids admitted so far.
C1_ResultSetIsNClosest ==
    /\ Len(m_current_results) <= m_n
    /\ \A i \in 1..Len(m_current_results) :
          m_current_results[i].key = Dist(m_current_results[i].val)
    /\ \A i \in 1..Len(m_current_results) : \A j \in 1..Len(m_current_results) :
          i < j => m_current_results[i].key < m_current_results[j].key
    /\ MapVals(m_current_results) = NClosest(admitted, m_n)

\* C1 witness: more ids were admitted than fit, and the farthest were dropped.
C1_Witness ==
    /\ m_n >= 1
    /\ Cardinality(admitted) > m_n
    /\ Len(m_current_results) = m_n
    /\ Len(m_pending) >= 2

\* C2: once connect_to has returned the target and the filter accepted it,
\* the status is done and the result set holds the target at distance 0.
C2_TargetFound ==
    m_target \in admitted =>
        /\ m_cur_status = "done"
        /\ Len(m_current_results) >= 1
        /\ m_current_results[1] = Entry(0, m_target)

\* C2 witness: the target was admitted, and another node as well.
C2_Witness ==
    /\ m_target \in admitted
    /\ Cardinality(admitted) >= 2
    /\ m_cur_status = "done"

\* C4: when every task has finished and the target was not found (and nobody
\* cancelled), the status is done; a search that never admitted anything
\* ends with an empty result set.
C4_DoneByExhaustion ==
    (AllExited /\ m_target \notin admitted /\ m_cur_status # "canceled") =>
        /\ m_cur_status = "done"
        /\ (admitted = {} => m_current_results = << >>)

\* C7: start launches exactly m_p tasks, and never more than m_p are running,
\* also after the queue ran empty and was filled again.
C7_AtMostPWorkers ==
    /\ Started => Len(m_pending) = m_p
    /\ ~ Started => Len(m_pending) = 0
    /\ Cardinality(Running) <= m_p

\* C7 witness: one result wanted, so at most one host was found locally; it
\* was visited and admitted, a task has left on the empty queue, and another
\* task is visiting a host that a merge put into the queue afterwards.
C7_Witness ==
    /\ m_n = 1
    /\ m_cur_status = "searching"
    /\ admitted # {}
    /\ \E w \in DOMAIN m_pending : m_pending[w].pc = "exited"
    /\ \E w \in DOMAIN m_pending : m_pending[w].pc = "connect"

\* C9: the status is idle before start and not idle after it, it leaves
\* searching only for done or canceled, and once done or canceled it stays.
C9_StatusOneWay ==
    [][ /\ (m_cur_status = "idle" => m_cur_status' \in {"idle", "searching"})
        /\ (m_cur_status = "searching" =>
               m_cur_status' \in {"searching", "done", "canceled"})
        /\ (m_cur_status \in {"done", "canceled"} => m_cur_status' = m_cur_status)
        /\ (Started' <=> m_cur_status' # "idle") ]_vars

\* C10: whenever a task waits for a remote answer while the result set is
\* full, merging any host h of the answer puts no id at distance >= the worst
\* result distance into the queue, and puts every id that is not a result and
\* is closer than the worst result into it.
C10_MonotonicNarrowing ==
    \A w \in DOMAIN m_pending :
        (m_pending[w].pc = "remote" /\ Len(m_current_results) = m_n) =>
            \A h \in Hosts :
                LET q == Merge(m_search_queue, m_current_results, << h >>)
                    worst == Worst(m_current_results)
                IN  /\ Dist(h.id) >= worst =>
                          (h.id \in MapKeys(q) => h.id \in MapKeys(m_search_queue))
                    /\ (h.id \notin MapVals(m_current_results) /\ Dist(h.id) < worst) =>
                          h.id \in MapKeys(q)

\* C5: after start, under fair scheduling and with collaborator calls that
\* always return, every spawned task eventually leaves its loop.
C5_Terminates == Started ~> AllExited

\* C8: wait without a deadline returns only when every spawned task has
\* finished, and once they all have, a waiting caller does return.
C8_WaitJoinsAll ==
    /\ [](callerPc = "returned" => AllExited)
    /\ ((callerPc = "waiting" /\ AllExited) ~> (callerPc = "returned"))

\* C8 witness: wait has returned from a search whose tasks visited nodes.
C8_Witness ==
    /\ callerPc = "returned"
    /\ admitted # {}
    /\ Len(m_pending) >= 2

\* The scenario of C3: one result wanted, the node itself knows only A, A is
\* up and knows the target's host, and the target is up.
C3_Scenario(A) ==
    /\ world.det
    /\ m_n = 1
    /\ A # m_target
    /\ world.seeds = << Host(A, A) >>
    /\ world.resolve[A] = Returned(A)
    /\ world.resolve[m_target] = Returned(m_target)
    /\ world.reject = {}
    /\ world.mute = {}
    /\ world.near = [Silent EXCEPT ![A] = << Host(m_target, m_target) >>]

\* C3: in that scenario, for every A other than the target, a search that
\* ran to its end (without being cancelled) ended done with the target as
\* its only result.
C3_TargetNeverMissed ==
    \A A \in ID :
        (C3_Scenario(A) /\ AllExited /\ m_cur_status # "canceled") =>
            /\ m_cur_status = "done"
            /\ m_current_results = << Entry(0, m_target) >>

Quiet ==
    /\ world.near = Silent
    /\ \A k \in 1..Len(world.seeds) :
          LET c == world.resolve[world.seeds[k].ep]
          IN  (c.ok /\ c.id = m_target) => m_target \in world.reject

C11_ResultNotRequeued ==
    \A w \in DOMAIN m_pending :
        m_pending[w].pc = "remote" =>
            \A h \in Hosts :
                h.id \in MapVals(m_current_results) =>
                    Merge(m_search_queue, m_current_results, << h >>) = m_search_queue

\* C12: whenever a task takes the next entry from the queue, no entry left in
\* the queue is closer to the target than the one taken (every host's
\* endpoint is the one of its id, so the endpoint taken names the id taken).
C12_TakesClosestFirst ==
    [][ \A w \in DOMAIN m_pending :
            (m_pending[w].pc # "connect" /\ m_pending'[w].pc = "connect") =>
                \A k \in 1..Len(m_search_queue') :
                    Dist(m_pending'[w].ep) <= Dist(m_search_queue'[k].key) ]_vars

\* The largest key of a non-empty map.
MaxKey(m) == CHOOSE k \in MapKeys(m) : \A j \in MapKeys(m) : j <= k

\* C13: when a task issues the neighbours query, the node it has just
\* resolved is stored as admitted, the query goes to that node for the target
\* with count m_n, and its limit is the largest distance in the result set as
\* it is right then if that set has at least m_n >= 1 entries, and no limit
\* otherwise.
C13_LimitIsFresh ==
    [][ \A w \in DOMAIN m_pending :
            (m_pending[w].pc = "filter" /\ m_pending'[w].pc = "remote") =>
                /\ m_pending[w].rtn \in admitted'
                /\ RemoteQuery(w)' =
                      [via |-> m_pending[w].rtn,
                       target |-> m_target,
                       count |-> m_n,
                       limit |-> IF Len(m_current_results') >= m_n /\ m_n > 0
                                 THEN [set |-> TRUE, v |-> MaxKey(m_current_results')]
                                 ELSE NoLimit] ]_vars

\* C13 witness: two tasks are suspended in a neighbours query; the result
\* set filled up in between, so one query carries a limit and the other a
\* different one or none.
C13_Witness ==
    \E w \in DOMAIN m_pending : \E v \in DOMAIN m_pending :
        /\ m_pending[w].pc = "remote"
        /\ m_pending[v].pc = "remote"
        /\ m_pending[w].limit.set
        /\ m_pending[w].limit.v = Worst(m_current_results)
        /\ m_pending[v].limit # m_pending[w].limit

\* C14: once the result set holds m_n >= 1 entries, every later step leaves
\* it with exactly m_n entries and a worst distance that is not larger; so
\* the limit of a neighbours query being issued is not above the limit of any
\* query still in flight, and no query in flight has a limit below the worst
\* distance of the result set.
C14_WorstNeverGrows ==
    /\ [][ (m_n >= 1 /\ Len(m_current_results) = m_n) =>
              /\ Len(m_current_results') = m_n
              /\ Worst(m_current_results') <= Worst(m_current_results) ]_vars
    /\ [][ \A w \in DOMAIN m_pending :
              (m_pending[w].pc = "filter" /\ m_pending'[w].pc = "remote") =>
                  \A v \in DOMAIN m_pending :
                      (m_pending[v].pc = "remote" /\ m_pending[v].limit.set) =>
                          /\ m_pending'[w].limit.set
                          /\ m_pending'[w].limit.v <= m_pending[v].limit.v ]_vars
    /\ [](\A w \in DOMAIN m_pending :
              (m_pending[w].pc = "remote" /\ m_pending[w].limit.set) =>
                  /\ Len(m_current_results) = m_n
                  /\ Worst(m_current_results) <= m_pending[w].limit.v)

\* C14 witness: a query is in flight with the limit of a full result set,
\* and a closer node admitted since then has lowered the worst distance.
C14_Witness ==
    /\ m_n >= 1
    /\ Len(m_current_results) = m_n
    /\ Cardinality(admitted) > m_n
    /\ \E w \in DOMAIN m_pending :
          /\ m_pending[w].pc = "remote"
          /\ m_pending[w].limit.set
          /\ Worst(m_current_results) < m_pending[w].limit.v

\* What a step of task w that ends an iteration in the catch of line 133
\* looks like: the result set and the status stay, no call for the candidate
\* is in flight, the queue gains nothing, and w is back at the loop test of
\* line 67: it takes the first queue entry if there is one and the search is
\* on, and leaves the loop otherwise.
Abandons(w) ==
    /\ m_current_results' = m_current_results
    /\ admitted' = admitted
    /\ m_cur_status' = m_cur_status
    /\ m_pending'[w].pc \notin {"filter", "remote"}
    /\ MapKeys(m_search_queue') \subseteq MapKeys(m_search_queue)
    /\ IF Len(m_search_queue) > 0 /\ m_cur_status = "searching"
       THEN /\ m_pending'[w].pc = "connect"
            /\ m_pending'[w].ep = m_search_queue[1].val
            /\ m_search_queue' = Tail(m_search_queue)
       ELSE /\ m_pending'[w].pc = "exited"
            /\ m_search_queue' = m_search_queue

\* C15: against a fixed collaborator, the step of a task whose connect_to
\* throws (the endpoint is down), or whose filter throws (the node is
\* rejected), abandons the candidate and nothing else: no result, no
\* neighbours query, no queue entry, no status change, and the task goes on
\* with the next queue entry (it leaves only when the loop test fails).
C15_FaultAbandonsCandidate ==
    [][ \A w \in DOMAIN m_pending :
            /\ (/\ world.det
                /\ m_pending[w].pc = "connect"
                /\ ~ world.resolve[m_pending[w].ep].ok
                /\ ConnectReturn(w)) => Abandons(w)
            /\ (/\ world.det
                /\ m_pending[w].pc = "filter"
                /\ m_pending[w].rtn \in world.reject
                /\ FilterReturn(w)) => Abandons(w) ]_vars

\* C15 witness: the single task found the first of two local hosts down and
\* is now connecting to the second.
C15_Witness ==
    /\ world.det
    /\ m_p = 1
    /\ Len(world.seeds) = 2
    /\ ~ world.resolve[world.seeds[1].ep].ok
    /\ m_cur_status = "searching"
    /\ m_pending = << Task("connect", world.seeds[2].ep, 0, NoLimit) >>
    /\ m_search_queue = << >>
    /\ admitted = {}

\* C16: against a fixed collaborator, the step of a task whose neighbours
\* query throws (the node is mute) keeps the result set as it is, with the
\* node just admitted in it unless a closer admitted node has pushed it out,
\* adds nothing to the queue, and the task goes on with the next queue entry
\* (it leaves only when the loop test fails).
C16_QueryFaultKeepsResult ==
    [][ \A w \in DOMAIN m_pending :
            (/\ world.det
             /\ m_pending[w].pc = "remote"
             /\ m_pending[w].rtn \in world.mute
             /\ RemoteReturn(w)) =>
                /\ Abandons(w)
                /\ m_pending[w].rtn \in admitted'
                /\ m_pending[w].rtn \in NClosest(admitted', m_n) =>
                      Entry(Dist(m_pending[w].rtn), m_pending[w].rtn)
                          \in { m_current_results'[k] : k \in 1..Len(m_current_results') } ]_vars

\* C16 witness: the single task admitted the first of two local hosts, the
\* query to it failed, the host is still a result and the task is now
\* connecting to the second host.
C16_Witness ==
    /\ world.det
    /\ m_p = 1
    /\ Len(world.seeds) = 2
    /\ world.mute = { world.seeds[1].id }
    /\ m_cur_status = "searching"
    /\ admitted = { world.seeds[1].id }
    /\ m_current_results = << Entry(Dist(world.seeds[1].id), world.seeds[1].id) >>
    /\ m_pending = << Task("connect", world.seeds[2].ep, 0, NoLimit) >>
    /\ m_search_queue = << >>

\* C17: a task whose connect_to has returned while the status is done or
\* canceled issues no neighbours query: from the filter call it can only
\* leave search_thread, and the queue is not touched by its step.
C17_TerminalStatusStopsTask ==
    [][ \A w \in DOMAIN m_pending :
            (m_pending[w].pc = "filter" /\ m_cur_status \in {"done", "canceled"}) =>
                /\ m_pending'[w].pc \in {"filter", "exited"}
                /\ (m_pending'[w].pc = "exited" => m_search_queue' = m_search_queue) ]_vars

\* Task w takes a queue entry in this step.
Takes(w) == TaskStep(w) /\ m_pending'[w].pc = "connect"

\* C18: the queue never holds an id twice; a step changes at most one task
\* and removes at most one entry that was in the queue; the entry a task
\* takes is gone from the queue when its step ends, so no other task can be
\* handed it; and an entry that left the queue was taken by the one task
\* whose step it was (every host's endpoint is the one of its id).
C18_TakeIsAtomic ==
    /\ [](\A i \in 1..Len(m_search_queue) : \A j \in 1..Len(m_search_queue) :
              i < j => m_search_queue[i].key < m_search_queue[j].key)
    /\ [][ /\ Cardinality({ w \in DOMAIN m_pending : m_pending'[w] # m_pending[w] }) <= 1
           /\ Cardinality(MapKeys(m_search_queue) \ MapKeys(m_search_queue')) <= 1
           /\ \A w \in DOMAIN m_pending :
                 Takes(w) => m_pending'[w].ep \notin MapKeys(m_search_queue')
           /\ \A k \in MapKeys(m_search_queue) \ MapKeys(m_search_queue') :
                 /\ k = m_search_queue[1].key
                 /\ \E w \in DOMAIN m_pending : Takes(w) /\ m_pending'[w].ep = k
                 /\ \A w \in DOMAIN m_pending : \A v \in DOMAIN m_pending :
                       (Takes(w) /\ Takes(v) /\ w # v) => m_pending[w] = m_pending[v]
         ]_vars

\* C18 witness: two tasks are connecting to the same endpoint: a merge queued
\* it again after the first of them had taken it, and the second took that
\* later entry.
C18_Witness ==
    \E w \in DOMAIN m_pending : \E v \in DOMAIN m_pending :
        /\ w # v
        /\ m_pending[w].pc = "connect"
        /\ m_pending[v].pc = "connect"
        /\ m_pending[w].ep = m_pending[v].ep
        /\ admitted # {}

\* C19: in every reachable state, putting any (id, endpoint) into the queue a
\* second time right after the first changes nothing, whether put directly
\* (lines 30, 121, 126) or offered through the merge (which runs only in a
\* search for m_n >= 1 results: with m_n = 0 no host is ever visited); and
\* storing any resolved id a second time right after the first (lines 79-86)
\* leaves the result set and the status as the first did.
C19_Idempotent ==
    /\ \A i \in ID : \A e \in EP :
          LET once == MapPut(m_search_queue, i, e)
          IN  MapPut(once, i, e) = once
    /\ m_n >= 1 =>
          \A h \in Hosts :
              LET once == Merge(m_search_queue, m_current_results, << h >>)
              IN  Merge(once, m_current_results, << h >>) = once
    /\ \A rtn \in ID :
          LET once == Admit(m_current_results, rtn)
              st == StatusAfter(rtn, m_cur_status)
          IN  /\ Admit(once, rtn) = once
              /\ StatusAfter(rtn, st) = st

\* C19 witness: the result set is full, a task is about to store an id that
\* is a result already, and another task is about to merge an answer.
C19_Witness ==
    /\ m_n >= 1
    /\ Len(m_current_results) = m_n
    /\ \E w \in DOMAIN m_pending : \E v \in DOMAIN m_pending :
          /\ m_pending[w].pc = "filter"
          /\ m_pending[w].rtn \in MapVals(m_current_results)
          /\ m_pending[v].pc = "remote"

\* C20 (as claimed): every join of wait( d ) that suspends the caller has a
\* deadline of its own, d after the moment that join begins.
C20_DeadlinePerJoin ==
    [][ (callerPc' = "waiting_until" /\ (callerPc # "waiting_until" \/ waitI' # waitI)) =>
            timeout_time' = now' + d' ]_vars

\* C20 (amended): wait( d ) computes one deadline, d after the call, and
\* every join waits for that same deadline: while the caller is suspended in
\* wait, and when it leaves wait, no more than d ticks have passed since the
\* call, however many tasks are unfinished.
C20_OneDeadlineForAllJoins ==
    (callerPc \in {"waiting_until", "timedout"} \/ (callerPc = "returned" /\ d > 0)) =>
        /\ d \in 1..MaxD
        /\ timeout_time = d
        /\ now <= d
        /\ (callerPc = "timedout" => now = d)

\* C20 witness: the first task finished a tick after the call, the caller
\* went on to join the second, and wait timed out there when d >= 2 ticks had
\* passed since the call, not d after that join began.
C20_Witness ==
    /\ callerPc = "timedout"
    /\ Len(m_pending) = 2
    /\ waitI = 2
    /\ m_pending[1].pc = "exited"
    /\ m_pending[2].pc # "exited"
    /\ d >= 2
    /\ now = d

=============================================================================
